---- MODULE Spec2Model ----
(***************************************************************************)
(* Model of src/index.js: the CSV meta-description pipeline.               *)
(*   processCSV reads the rows of the input file, normalizes their keys,   *)
(*   runs generateStructuredResponse on the rows batch by batch            *)
(*   (processBatch: all calls of a batch issued at once, joined with       *)
(*   Promise.all), pauses between batches and hands the collected results  *)
(*   to the csv writer.                                                    *)
(* Strings that the code transforms (the column names) are sequences of    *)
(* one-character strings; values the code only copies are opaque.          *)
(***************************************************************************)
EXTENDS Integers, Sequences, FiniteSets, TLC

(***************************************************************************)
(* Bounds of the model and constants of the program.                       *)
(***************************************************************************)
\* src/index.js:15
BATCH_SIZE == 5
\* rows of the input file and configured batch sizes, explored exhaustively
MaxRows == 4
MaxBatch == 3
\* the run of the program as configured (BATCH_SIZE) over a longer file
ExampleRows == 12
ExampleFaults == 1
\* characters in the column names of a raw row drawn for the normalizer
MaxKeyChars == 4

VARIABLES
    pc,          \* where processCSV stands
    file,        \* the rows of the input file, as the parser emits them
    products,    \* const products = [] (line 119)
    batchSize,   \* the configured batch size (BATCH_SIZE, line 15)
    i,           \* the loop variable of line 141
    calls,       \* per row with an issued call: pending, or how it settled
    requests,    \* per row: requests sent to the external service
    results,     \* const results = [] (line 140)
    delays,      \* number of delay() calls made (line 151)
    batches,     \* the batches executed so far, as <<first index, rows>>
    sink,        \* whether writeRecords was called, and with what
    readFailure, \* which stream failed during the read, "none" otherwise
    faultsLeft,  \* service calls the environment may still fail or garble
    outOfOrder   \* some call settled before an earlier call of its batch

vars == <<pc, file, products, batchSize, i, calls, requests, results,
          delays, batches, sink, readFailure, faultsLeft, outOfOrder>>

\* Values the code only copies are tagged tuples; undefined is one of them.
Undefined == <<"undefined">>
\* the sink before writeRecords is called
NotWritten == [invoked |-> FALSE, records |-> <<>>]
Pending == [state |-> "pending"]

(***************************************************************************)
(* Strings and the row normalizer (lines 124-132).                         *)
(***************************************************************************)
\* String.prototype.toLowerCase on the letters the model uses
ToLowerChar(c) ==
    CASE c = "B" -> "b" [] c = "D" -> "d" [] c = "E" -> "e" [] c = "H" -> "h"
      [] c = "I" -> "i" [] c = "L" -> "l" [] c = "M" -> "m" [] c = "T" -> "t"
      [] c = "Y" -> "y" [] OTHER -> c

ToLowerCase(s) == [p \in 1..Len(s) |-> ToLowerChar(s[p])]

\* \s of the regular expression
IsSpace(c) == c = " "

\* Variant: replace(/\s/g, '_'), every whitespace character becomes a '_'
ReplaceEachSpace(s) == [p \in 1..Len(s) |-> IF IsSpace(s[p]) THEN "_" ELSE s[p]]

\* replace(/\s+/g, '_'): every maximal run of whitespace becomes one '_'
RECURSIVE ReplaceSpaceRuns(_)
ReplaceSpaceRuns(s) ==
    IF s = <<>> THEN <<>>
    ELSE IF IsSpace(Head(s))
         THEN IF Len(s) > 1 /\ IsSpace(s[2])
              THEN ReplaceSpaceRuns(Tail(s))
              ELSE <<"_">> \o ReplaceSpaceRuns(Tail(s))
         ELSE <<Head(s)>> \o ReplaceSpaceRuns(Tail(s))

\* line 128
CleanKey(key) == ReplaceSpaceRuns(ToLowerCase(key))

\* An object is the sequence of its <<key, value>> entries in insertion
\* order, keys distinct.
HasKey(obj, key) == \E p \in 1..Len(obj) : obj[p][1] = key

\* obj[key], undefined when the object has no such property
Get(obj, key) ==
    IF HasKey(obj, key)
    THEN LET p == CHOOSE q \in 1..Len(obj) : obj[q][1] = key IN obj[p][2]
    ELSE Undefined

\* obj[key] = value: an existing property keeps its place and takes the value
Put(obj, key, value) ==
    IF HasKey(obj, key)
    THEN [p \in 1..Len(obj) |->
             IF obj[p][1] = key THEN <<key, value>> ELSE obj[p]]
    ELSE Append(obj, <<key, value>>)

\* lines 126-130: the forEach over Object.keys(row)
RECURSIVE CleanInto(_, _)
CleanInto(cleanedRow, row) ==
    IF row = <<>> THEN cleanedRow
    ELSE CleanInto(Put(cleanedRow, CleanKey(Head(row)[1]), Head(row)[2]),
                   Tail(row))

CleanRow(row) == CleanInto(<<>>, row)

(***************************************************************************)
(* Input files.                                                            *)
(***************************************************************************)
HdrId == <<"I", "D">>
HdrTitle == <<"T", "i", "t", "l", "e">>
HdrBody == <<"B", "o", "d", "y", " ", "H", "T", "M", "L">>
HdrType == <<"T", "y", "p", "e">>

KeyId == <<"i", "d">>
KeyTitle == <<"t", "i", "t", "l", "e">>
KeyBody == <<"b", "o", "d", "y", "_", "h", "t", "m", "l">>
KeyType == <<"t", "y", "p", "e">>

\* the k-th row of a product export
ProductRow(k) ==
    << <<HdrId, <<"id", k>> >>, <<HdrTitle, <<"title", k>> >>,
       <<HdrBody, <<"body", k>> >>, <<HdrType, <<"type", k>> >> >>

ProductFile(n) == [k \in 1..n |-> ProductRow(k)]

\* Raw rows for the normalizer: columns with distinct non-empty names over
\* a small alphabet, MaxKeyChars characters of names in all, each column
\* with a value of its own.
NormAlphabet == {"T", "t", " ", "_"}

KeysUpTo(n) == UNION {[1..m -> NormAlphabet] : m \in 1..n}

RECURSIVE KeyLists(_)
KeyLists(budget) ==
    {<<>>} \cup
    UNION {{<<key>> \o rest : rest \in KeyLists(budget - Len(key))} :
           key \in KeysUpTo(budget)}

RawRows ==
    {[c \in 1..Len(ks) |-> <<ks[c], <<"value", c>> >>] :
       ks \in {l \in KeyLists(MaxKeyChars) :
                 \A a, b \in 1..Len(l) : a # b => l[a] # l[b]}}

(***************************************************************************)
(* generateStructuredResponse (lines 48-90) and the responses of the       *)
(* external service.                                                       *)
(***************************************************************************)
RequiredFields ==
    {"id", "product_title", "product_description", "product_type",
     "meta_description"}

\* responseSchema (lines 19-45): required fields, additionalProperties false
Conforms(obj) == DOMAIN obj = RequiredFields

\* Variant: the fallback echoes the description where the title belongs
FallbackSwapped(id, productTitle, productDescription, productType) ==
    [id |-> id,
     product_title |-> productDescription,
     product_description |-> productTitle,
     product_type |-> productType,
     meta_description |-> "Meta description generation failed"]

\* lines 82-88
Fallback(id, productTitle, productDescription, productType) ==
    [id |-> id,
     product_title |-> productTitle,
     product_description |-> productDescription,
     product_type |-> productType,
     meta_description |-> "Meta description generation failed"]

\* the arguments processBatch passes for a row (lines 95-100)
Args(row) ==
    <<Get(row, KeyId), Get(row, KeyTitle), Get(row, KeyBody),
      Get(row, KeyType)>>

\* What the service may answer to the request for `row`:
\*   "ok"      content that parses and conforms to the schema
\*   "missing" content that parses, without meta_description
\*   "extra"   content that parses, with a field the schema does not have
\*   "throw"   the call rejects (network error, timeout) or JSON.parse throws
Outcomes == {"ok", "missing", "extra", "throw"}

Generated(row) ==
    [id |-> Args(row)[1],
     product_title |-> Args(row)[2],
     product_description |-> Args(row)[3],
     product_type |-> Args(row)[4],
     meta_description |-> "generated"]

Content(row, outcome) ==
    CASE outcome = "ok" -> Generated(row)
      [] outcome = "missing" ->
            [f \in RequiredFields \ {"meta_description"} |-> Generated(row)[f]]
      [] outcome = "extra" ->
            [f \in RequiredFields \cup {"note"} |->
                IF f = "note" THEN "n/a" ELSE Generated(row)[f]]

\* lines 49-89: the value the promise of generateStructuredResponse resolves to
GenerateResult(row, outcome) ==
    IF outcome = "throw"
    THEN Fallback(Args(row)[1], Args(row)[2], Args(row)[3], Args(row)[4])
    ELSE Content(row, outcome)

(***************************************************************************)
(* The batch loop (lines 140-153) and processBatch (lines 93-106).         *)
(***************************************************************************)
Min(a, b) == IF a < b THEN a ELSE b

\* Variant: a slice that takes the element at `end` too
SliceInclusive(seq, begin, end) ==
    [p \in 1..(Min(end + 1, Len(seq)) - Min(begin, Len(seq))) |-> seq[begin + p]]

\* Array.prototype.slice(begin, end), 0 <= begin <= end
Slice(seq, begin, end) ==
    [p \in 1..(Min(end, Len(seq)) - Min(begin, Len(seq))) |-> seq[begin + p]]

\* the rows of products by position
Rows == [k \in 1..Len(products) |-> k]

\* line 143
Batch(n) == Slice(Rows, i, i + n)

\* line 141
LoopCond(len) == i < len

\* Variant: a delay after every batch
DelayAlways(n, len) == TRUE

\* line 150
DelayNeeded(n, len) == i + n < len

\* Variant: the loop steps one row too far
NextIndexSkip(n) == i + n + 1

\* line 141: i += BATCH_SIZE
NextIndex(n) == i + n

Settled(r) == r \in DOMAIN calls /\ calls[r].state = "settled"

\* Variant: the join resolves with the first call that settles (Promise.race)
AnySettled(batch) == \E p \in 1..Len(batch) : Settled(batch[p])

\* Variant: the join waits for a call of every row of products
AllProductsSettled(batch) == \A r \in 1..Len(products) : Settled(r)

\* Promise.all (line 105) resolves once every promise of the batch has
AllSettled(batch) == \A p \in 1..Len(batch) : Settled(batch[p])

\* Promise.all resolves to the values in the order of the promises
ValueOf(r) == IF Settled(r) THEN calls[r].value ELSE Undefined

\* Variant: the values are collected last promise first
PromiseAllReversed(batch) ==
    [p \in 1..Len(batch) |->
        [row |-> batch[Len(batch) + 1 - p],
         value |-> ValueOf(batch[Len(batch) + 1 - p])]]

PromiseAll(batch) ==
    [p \in 1..Len(batch) |-> [row |-> batch[p], value |-> ValueOf(batch[p])]]

(***************************************************************************)
(* Initial states.                                                         *)
(***************************************************************************)
InitWith(rows, n, faults) ==
    /\ pc = "reading"
    /\ file = rows
    /\ products = <<>>
    /\ batchSize = n
    /\ i = 0
    /\ calls = <<>>
    /\ requests = <<>>
    /\ results = <<>>
    /\ delays = 0
    /\ batches = <<>>
    /\ sink = NotWritten
    /\ readFailure = "none"
    /\ faultsLeft = faults
    /\ outOfOrder = FALSE

Init ==
    \/ \E r \in 0..MaxRows, n \in 1..MaxBatch : InitWith(ProductFile(r), n, r)
    \/ \E f \in 0..ExampleFaults :
          InitWith(ProductFile(ExampleRows), BATCH_SIZE, f)

InitNorm == \E row \in RawRows : InitWith(<<row>>, BATCH_SIZE, 0)

(***************************************************************************)
(* Reading (lines 121-135).                                                *)
(***************************************************************************)
\* 'data' (lines 124-132)
OnData ==
    /\ pc = "reading"
    /\ Len(products) < Len(file)
    /\ products' = Append(products, CleanRow(file[Len(products) + 1]))
    /\ UNCHANGED <<pc, file, batchSize, i, calls, requests, results, delays,
                   batches, sink, readFailure, faultsLeft, outOfOrder>>

\* 'end' (line 133): the promise resolves, processCSV goes on to the loop
OnEnd ==
    /\ pc = "reading"
    /\ Len(products) = Len(file)
    /\ pc' = "loop"
    /\ UNCHANGED <<file, products, batchSize, i, calls, requests, results,
                   delays, batches, sink, readFailure, faultsLeft, outOfOrder>>

\* 'error' of the parser stream (line 134): reject, caught at line 170
OnParserError ==
    /\ pc = "reading"
    /\ pc' = "reported"
    /\ readFailure' = "parser"
    /\ UNCHANGED <<file, products, batchSize, i, calls, requests, results,
                   delays, batches, sink, faultsLeft, outOfOrder>>

\* 'error' of the file stream (line 122). pipe() does not forward errors and
\* the stream has no 'error' listener: the event is thrown as an uncaught
\* exception and the process dies; the catch of line 170 never runs.
OnFileError ==
    /\ pc = "reading"
    /\ pc' = "crashed"
    /\ readFailure' = "file"
    /\ UNCHANGED <<file, products, batchSize, i, calls, requests, results,
                   delays, batches, sink, faultsLeft, outOfOrder>>

(***************************************************************************)
(* The batch loop.                                                         *)
(***************************************************************************)
\* lines 141-146 up to the await: the batch is sliced and processBatch maps
\* it; every callback runs to the await of line 58, so every request of the
\* batch is sent before control returns.
StartBatch ==
    /\ pc = "loop"
    /\ LoopCond(Len(products))
    /\ LET batch == Batch(batchSize)
           rows == {batch[p] : p \in 1..Len(batch)}
       IN /\ calls' = [r \in DOMAIN calls \cup rows |->
                          IF r \in rows THEN Pending ELSE calls[r]]
          /\ requests' = [r \in DOMAIN requests \cup rows |->
                          (IF r \in DOMAIN requests THEN requests[r] ELSE 0)
                          + Cardinality({p \in 1..Len(batch) : batch[p] = r})]
          /\ batches' = Append(batches, <<i, batch>>)
    /\ pc' = "await"
    /\ UNCHANGED <<file, products, batchSize, i, results, delays, sink,
                   readFailure, faultsLeft, outOfOrder>>

\* the call for row r settles (lines 58-89)
ServiceRespond ==
    \E r \in DOMAIN calls, outcome \in Outcomes :
        /\ calls[r] = Pending
        /\ outcome # "ok" => faultsLeft > 0
        /\ faultsLeft' = IF outcome = "ok" THEN faultsLeft ELSE faultsLeft - 1
        /\ calls' = [calls EXCEPT ![r] =
                        [state |-> "settled", outcome |-> outcome,
                         value |-> GenerateResult(products[r], outcome)]]
        /\ outOfOrder' = (outOfOrder \/ \E q \in DOMAIN calls :
                              q < r /\ calls[q] = Pending)
        /\ UNCHANGED <<pc, file, products, batchSize, i, requests, results,
                       delays, batches, sink, readFailure>>

\* lines 146-152: Promise.all resolved, the results are pushed, and either
\* the delay starts or the loop goes round
JoinBatch ==
    /\ pc = "await"
    /\ AllSettled(Batch(batchSize))
    /\ results' = results \o PromiseAll(Batch(batchSize))
    /\ IF DelayNeeded(batchSize, Len(products))
       THEN /\ pc' = "delay"
            /\ delays' = delays + 1
            /\ i' = i
       ELSE /\ pc' = "loop"
            /\ delays' = delays
            /\ i' = NextIndex(batchSize)
    /\ UNCHANGED <<file, products, batchSize, calls, requests, batches,
                   sink, readFailure, faultsLeft, outOfOrder>>

\* the timer of delay() fires (lines 109-111, 151)
DelayFire ==
    /\ pc = "delay"
    /\ pc' = "loop"
    /\ i' = NextIndex(batchSize)
    /\ UNCHANGED <<file, products, batchSize, calls, requests, results,
                   delays, batches, sink, readFailure, faultsLeft, outOfOrder>>

\* lines 156-167: the loop is over, writeRecords is called
StartWrite ==
    /\ pc = "loop"
    /\ ~LoopCond(Len(products))
    /\ sink' = [invoked |-> TRUE, records |-> results]
    /\ pc' = "writing"
    /\ UNCHANGED <<file, products, batchSize, i, calls, requests, results,
                   delays, batches, readFailure, faultsLeft, outOfOrder>>

\* line 168: the write completed, the completion message is printed
WriteDone ==
    /\ pc = "writing"
    /\ pc' = "done"
    /\ UNCHANGED <<file, products, batchSize, i, calls, requests, results,
                   delays, batches, sink, readFailure, faultsLeft, outOfOrder>>

\* writeRecords rejects: caught at line 170
WriteFail ==
    /\ pc = "writing"
    /\ pc' = "reported"
    /\ UNCHANGED <<file, products, batchSize, i, calls, requests, results,
                   delays, batches, sink, readFailure, faultsLeft, outOfOrder>>

Next ==
    \/ OnData
    \/ OnEnd
    \/ OnParserError
    \/ OnFileError
    \/ StartBatch
    \/ ServiceRespond
    \/ JoinBatch
    \/ DelayFire
    \/ StartWrite
    \/ WriteDone
    \/ WriteFail

Spec == Init /\ [][Next]_vars

\* The event loop runs every ready continuation, the streams deliver their
\* events, every service call settles, every timer fires and the write ends.
SpecLive ==
    /\ Init
    /\ [][Next]_vars
    /\ WF_vars(OnData)
    /\ WF_vars(OnEnd)
    /\ WF_vars(StartBatch)
    /\ WF_vars(ServiceRespond)
    /\ WF_vars(JoinBatch)
    /\ WF_vars(DelayFire)
    /\ WF_vars(StartWrite)
    /\ WF_vars(WriteDone \/ WriteFail)

\* The row normalizer alone: one raw row is read and normalized.
NextNorm ==
    \/ OnData
    \/ OnEnd

SpecNorm == InitNorm /\ [][NextNorm]_vars

(***************************************************************************)
(* Properties.                                                             *)
(***************************************************************************)
NumRows == Len(file)

CeilDiv(a, b) == (a + b - 1) \div b

Max(a, b) == IF a > b THEN a ELSE b

NumBatches == CeilDiv(NumRows, batchSize)

PendingRows == {r \in DOMAIN calls : calls[r] = Pending}

\* the batch a row belongs to, counted from 0
BatchOf(r) == (r - 1) \div batchSize

Threw(r) == Settled(r) /\ calls[r].outcome = "throw"

Answered(r) == Settled(r) /\ calls[r].outcome = "ok"

\* the fallback record of the k-th row of a product export, written out
ExpectedFallback(k) ==
    [id |-> <<"id", k>>,
     product_title |-> <<"title", k>>,
     product_description |-> <<"body", k>>,
     product_type |-> <<"type", k>>,
     meta_description |-> "Meta description generation failed"]

\* C1: when processCSV reaches the sink, it hands it exactly one result per
\* input row, and the k-th result is the value the call for the k-th row
\* settled with, whatever the order in which the calls of a batch completed.
C1_OutputMatchesInput ==
    sink.invoked =>
        /\ Len(sink.records) = NumRows
        /\ \A k \in 1..Len(sink.records) :
              /\ sink.records[k].row = k
              /\ Settled(k)
              /\ sink.records[k].value = calls[k].value

C1_Witness ==
    /\ sink.invoked
    /\ outOfOrder
    /\ NumRows >= 3
    /\ Len(batches) >= 2

\* C2: a call that throws settles with the fallback record (the sentinel as
\* meta_description, the four inputs echoed); nothing is raised to the
\* caller, so the run ends in the error handler only after a read or a write
\* failure, and the sink still receives a result for every row, the
\* fallback records in the places of the rows that threw.
C2_ThrowFallsBack ==
    /\ \A r \in DOMAIN calls : Threw(r) => calls[r].value = ExpectedFallback(r)
    /\ pc = "reported" => (readFailure # "none" \/ sink.invoked)
    /\ pc = "crashed" => readFailure = "file"
    /\ sink.invoked =>
          /\ Len(sink.records) = NumRows
          /\ \A k \in 1..Len(sink.records) :
                /\ sink.records[k].row = k
                /\ Threw(k) => sink.records[k].value = ExpectedFallback(k)
                /\ Answered(k) => sink.records[k].value = Generated(products[k])

C2_Witness ==
    /\ pc = "done"
    /\ \E r, q, t \in DOMAIN calls :
          /\ Threw(r)
          /\ Answered(q) /\ BatchOf(q) = BatchOf(r) /\ q > r
          /\ Answered(t) /\ BatchOf(t) > BatchOf(r)

\* C3: a response that parses but does not conform to the response schema
\* makes the row fall back: its result is the fallback record.
C3_NonConformantFallsBack ==
    \A r \in DOMAIN calls :
        (/\ Settled(r)
         /\ calls[r].outcome # "throw"
         /\ ~Conforms(Content(products[r], calls[r].outcome)))
        => calls[r].value = ExpectedFallback(r)

\* C4: the loop executes ceil(R/N) batches; the b-th batch is the contiguous
\* slice starting at row (b-1)*N, of at most N rows; every batch but the
\* last has N rows and the last has R mod N rows (N when R mod N = 0).
C4_Batching ==
    /\ Len(batches) <= NumBatches
    /\ \A b \in 1..Len(batches) :
          LET rows == batches[b][2] IN
          /\ batches[b][1] = (b - 1) * batchSize
          /\ rows = [p \in 1..Len(rows) |-> (b - 1) * batchSize + p]
          /\ Len(rows) <= batchSize
          /\ b < NumBatches => Len(rows) = batchSize
          /\ b = NumBatches =>
                Len(rows) = IF NumRows % batchSize = 0 THEN batchSize
                            ELSE NumRows % batchSize
    /\ sink.invoked => Len(batches) = NumBatches

C4_Witness ==
    /\ sink.invoked
    /\ NumRows = 12 /\ batchSize = 5
    /\ Len(batches) = 3
    /\ Len(batches[1][2]) = 5 /\ Len(batches[2][2]) = 5
    /\ Len(batches[3][2]) = 2

\* C5: a delay follows every batch but the last and nothing else: a delay
\* runs only when every call issued so far has settled and a batch is still
\* to come, each earlier batch was followed by exactly one delay, and at
\* the sink write the number of delays is max(0, ceil(R/N) - 1).
C5_Delays ==
    /\ delays <= Max(0, NumBatches - 1)
    /\ pc = "delay" =>
          /\ PendingRows = {}
          /\ \A r \in 1..Min(i + batchSize, NumRows) : Settled(r)
          /\ delays = Len(batches)
          /\ Len(batches) < NumBatches
    /\ pc = "await" => delays = Len(batches) - 1
    /\ sink.invoked => delays = Max(0, NumBatches - 1)

C5_Witness ==
    /\ pc = "writing"
    /\ NumRows = 12 /\ batchSize = 5
    /\ delays = 2

\* C6: every row is requested at most once, failed or not, and by the time
\* of the sink write every row has been requested exactly once.
C6_OneRequestPerRow ==
    /\ DOMAIN requests = DOMAIN calls
    /\ \A r \in DOMAIN requests : r \in 1..NumRows /\ requests[r] = 1
    /\ sink.invoked => DOMAIN requests = 1..NumRows

C6_Witness ==
    /\ sink.invoked
    /\ NumRows >= 3
    /\ \E r, q \in DOMAIN requests :
          Threw(r) /\ Answered(q) /\ requests[r] = 1 /\ requests[q] = 1

\* C7: after a failure of the read the run is in the error handler, no
\* request was sent, the sink was not invoked and the run did not complete.
C7_ReadFailureReported ==
    readFailure # "none" =>
        /\ pc = "reported"
        /\ DOMAIN requests = {}
        /\ ~sink.invoked

\* C8: the calls in flight all belong to one batch and are at most N; a
\* call of a batch is issued only when every call of the earlier batches
\* has settled, and none is issued while the delay runs.
C8_SequentialBatches ==
    /\ Cardinality(PendingRows) <= batchSize
    /\ \A a, b \in PendingRows : BatchOf(a) = BatchOf(b)
    /\ \A r \in DOMAIN calls :
          \A q \in 1..NumRows : BatchOf(q) < BatchOf(r) => Settled(q)
    /\ pc # "await" => PendingRows = {}
    /\ pc = "delay" => \A r \in DOMAIN calls : BatchOf(r) < Len(batches)

C8_Witness ==
    /\ pc = "await"
    /\ batchSize >= 2
    /\ Len(batches) >= 2
    /\ Cardinality(PendingRows) = batchSize

\* C9: every run ends: completion, the error handler, or the uncaught
\* exception that ends the process.
Terminated == pc \in {"done", "reported", "crashed"}

C9_Terminates == <>Terminated

C9_Witness ==
    /\ pc = "done"
    /\ delays >= 2
    /\ \E r \in DOMAIN calls : Threw(r)

\* The normal form of a key, stated by positions: a character is kept unless
\* it is whitespace that follows whitespace; kept whitespace reads '_',
\* kept letters read in lower case.
CasePairs ==
    {<<"B", "b">>, <<"D", "d">>, <<"E", "e">>, <<"H", "h">>, <<"I", "i">>,
     <<"L", "l">>, <<"M", "m">>, <<"T", "t">>, <<"Y", "y">>}

LowerOf(c) ==
    IF \E pr \in CasePairs : pr[1] = c
    THEN (CHOOSE pr \in CasePairs : pr[1] = c)[2]
    ELSE c

KeptPositions(s) ==
    {p \in 1..Len(s) : ~IsSpace(s[p]) \/ p = 1 \/ ~IsSpace(s[p - 1])}

NormalForm(s) ==
    [q \in 1..Cardinality(KeptPositions(s)) |->
        LET p == CHOOSE x \in KeptPositions(s) :
                     Cardinality({y \in KeptPositions(s) : y < x}) = q - 1
        IN IF IsSpace(s[p]) THEN "_" ELSE LowerOf(s[p])]

NormalKeys(raw) == {NormalForm(raw[p][1]) : p \in 1..Len(raw)}

\* the last entry of the raw row whose key has the normal form nk
LastWith(raw, nk) ==
    CHOOSE p \in 1..Len(raw) :
        /\ NormalForm(raw[p][1]) = nk
        /\ \A q \in (p + 1)..Len(raw) : NormalForm(raw[q][1]) # nk

\* C10 (as amended): the keys of the normalized record are the normal forms
\* of the raw keys, each once; no key holds upper case or whitespace; under
\* each key stands the value of the last raw key with that normal form, so
\* a row whose keys have distinct normal forms keeps every value and its
\* number of entries.
C10_Normalized ==
    \A k \in 1..Len(products) :
        LET raw == file[k]
            rec == products[k]
        IN /\ {rec[p][1] : p \in 1..Len(rec)} = NormalKeys(raw)
           /\ Len(rec) = Cardinality(NormalKeys(raw))
           /\ \A nk \in NormalKeys(raw) :
                 Get(rec, nk) = raw[LastWith(raw, nk)][2]
           /\ \A p \in 1..Len(rec) : \A c \in 1..Len(rec[p][1]) :
                 /\ ~IsSpace(rec[p][1][c])
                 /\ LowerOf(rec[p][1][c]) = rec[p][1][c]
           /\ Cardinality(NormalKeys(raw)) = Len(raw) =>
                 /\ Len(rec) = Len(raw)
                 /\ \A p \in 1..Len(raw) :
                       Get(rec, NormalForm(raw[p][1])) = raw[p][2]

\* a row read whose keys "  " and "_" collide: one entry, the later value
C10_Witness ==
    /\ Len(products) = 1
    /\ file[1] = << << <<" ", " ">>, <<"value", 1>> >>,
                    << <<"_">>, <<"value", 2>> >> >>
    /\ products[1] = << << <<"_">>, <<"value", 2>> >> >>

\* C10 as claimed: every raw value stands under its normalized key and the
\* record has as many entries as the raw row, colliding keys included.
C10_EveryValueKept ==
    \A k \in 1..Len(products) :
        /\ Len(products[k]) = Len(file[k])
        /\ \A p \in 1..Len(file[k]) :
              Get(products[k], NormalForm(file[k][p][1])) = file[k][p][2]

====
